---- MODULE Spec2Model ----
(***************************************************************************)
(* ECDSA bridge of package openssl (openssl/ecdsa.go): native key handles   *)
(* owned by finalizable wrappers, key construction, signing, verification  *)
(* and key generation, run by goroutines that interleave with each other   *)
(* and with the garbage collector's finalizer.                              *)
(***************************************************************************)
EXTENDS Integers, Sequences, FiniteSets, TLC

(* ------------------------------------------------------------------------ *)
(* Bounds of the model                                                      *)
(* ------------------------------------------------------------------------ *)

\* Native key objects the engine can allocate before EC_KEY_new_by_curve_name
\* reports an allocation failure.
MaxKeys == 2

\* What ECDSA_size reports for a key of the model's engine: the longest DER
\* signature the engine writes.
EcdsaSize == 10

(* ------------------------------------------------------------------------ *)
(* Values                                                                   *)
(* ------------------------------------------------------------------------ *)

Goroutines == {"g1"}

\* A *big.Int is <<>> (nil) or <<v>>.
NilInt == <<>>
Scalars == {1, 2}
BigPtrs == {NilInt} \cup {<<v>> : v \in Scalars}

\* Signature components offered to VerifyECDSA and written by the engine:
\* 200 needs a leading zero byte in DER.
SigInts == {1, 200}
SigPtrs == {NilInt} \cup {<<v>> : v \in SigInts}

Hashes == {"h1", "h2"}

\* Curve names are strings, written as the sequences of their characters.
P224 == <<"P", "-", "2", "2", "4">>
P256 == <<"P", "-", "2", "5", "6">>
P384 == <<"P", "-", "3", "8", "4">>
P521 == <<"P", "-", "5", "2", "1">>

\* The names the operations are called with: a supported curve and an
\* unsupported one.
P192 == <<"P", "-", "1", "9", "2">>
CurveNames == {P256, P192}

\* The names curveNID is probed with: every string of at most MaxNameLen of
\* the characters NameChars, the four supported names, and near misses of them.
NameChars == {"P", "-", "2", "4", "5", "6"}
MaxNameLen == 5
ProbeNames ==
    UNION {[1..k -> NameChars] : k \in 0..MaxNameLen}
    \cup {P224, P256, P384, P521, P192,
          <<"p", "-", "2", "5", "6">>, <<"P", "-", "2", "5", "6", " ">>,
          <<"P", "-", "3", "8", "5">>, <<"P", "5", "2", "1">>,
          <<"s", "e", "c", "p", "2", "5", "6", "r", "1">>}

\* The signature components VerifyECDSA is called with.
SigPairs == {<<NilInt, <<1>>>>, <<<<1>>, NilInt>>, <<<<1>>, <<1>>>>,
             <<<<1>>, <<200>>>>, <<<<200>>, <<1>>>>}

\* The public coordinates the constructors are called with: (1, 2) lies on
\* the curve, (2, 2) does not.
Points == {<<1, 2>>, <<2, 2>>}

NID_secp224r1 == 713
NID_X9_62_prime256v1 == 415
NID_secp384r1 == 715
NID_secp521r1 == 716

(* ------------------------------------------------------------------------ *)
(* curveNID                                                                 *)
(* ------------------------------------------------------------------------ *)

\* A curveNID whose P-384 case returns the P-256 identifier.
curveNIDSwapped(curve) ==
    CASE curve = P224 -> [nid |-> NID_secp224r1, err |-> "nil"]
      [] curve = P256 -> [nid |-> NID_X9_62_prime256v1, err |-> "nil"]
      [] curve = P384 -> [nid |-> NID_X9_62_prime256v1, err |-> "nil"]
      [] curve = P521 -> [nid |-> NID_secp521r1, err |-> "nil"]
      [] OTHER -> [nid |-> 0, err |-> "errUnknownCurve"]

\* A curveNID that takes every other name for P-256.
curveNIDDefault(curve) ==
    CASE curve = P224 -> [nid |-> NID_secp224r1, err |-> "nil"]
      [] curve = P384 -> [nid |-> NID_secp384r1, err |-> "nil"]
      [] curve = P521 -> [nid |-> NID_secp521r1, err |-> "nil"]
      [] OTHER -> [nid |-> NID_X9_62_prime256v1, err |-> "nil"]

curveNID(curve) ==
    CASE curve = P224 -> [nid |-> NID_secp224r1, err |-> "nil"]
      [] curve = P256 -> [nid |-> NID_X9_62_prime256v1, err |-> "nil"]
      [] curve = P384 -> [nid |-> NID_secp384r1, err |-> "nil"]
      [] curve = P521 -> [nid |-> NID_secp521r1, err |-> "nil"]
      [] OTHER -> [nid |-> 0, err |-> "errUnknownCurve"]

(* ------------------------------------------------------------------------ *)
(* encoding/asn1 on ecdsaSignature{R, S}: DER SEQUENCE of two INTEGERs      *)
(* ------------------------------------------------------------------------ *)

Pow256(n) == IF n = 0 THEN 1 ELSE IF n = 1 THEN 256 ELSE IF n = 2 THEN 65536 ELSE 16777216

\* Bytes of the minimal two's-complement form of v (at most three).
IntLen(v) ==
    IF v >= -128 /\ v < 128 THEN 1
    ELSE IF v >= -32768 /\ v < 32768 THEN 2 ELSE 3

IntBytes(v) ==
    LET n == IntLen(v)
        u == IF v < 0 THEN v + Pow256(n) ELSE v
    IN  [i \in 1..n |-> (u \div Pow256(n - i)) % 256]

DerInteger(v) == <<2, IntLen(v)>> \o IntBytes(v)

\* asn1.Marshal(ecdsaSignature{r, s}): a nil integer is a structural error.
asn1Marshal(r, s) ==
    IF r = NilInt \/ s = NilInt
    THEN [err |-> "asn1Error", sig |-> <<>>]
    ELSE LET body == DerInteger(r[1]) \o DerInteger(s[1])
         IN  [err |-> "nil", sig |-> <<48, Len(body)>> \o body]

\* Value of a big-endian two's-complement byte string of one to three bytes.
BytesValue(b) ==
    LET n == Len(b)
        u == IF n = 1 THEN b[1]
             ELSE IF n = 2 THEN b[1] * 256 + b[2]
             ELSE b[1] * 65536 + b[2] * 256 + b[3]
    IN  IF b[1] >= 128 THEN u - Pow256(n) ELSE u

\* One INTEGER at the head of b: [ok, val, rest]. Empty and non-minimal
\* integers are rejected, as is a length running past the data.
ParseInteger(b) ==
    LET bad == [ok |-> FALSE, val |-> 0, rest |-> <<>>]
    IN  IF Len(b) < 2 \/ b[1] # 2 THEN bad
        ELSE LET l == b[2]
             IN  IF l = 0 \/ l > 3 \/ Len(b) < 2 + l THEN bad
                 ELSE LET c == SubSeq(b, 3, 2 + l)
                      IN  IF l > 1 /\ ((c[1] = 0 /\ c[2] < 128) \/ (c[1] = 255 /\ c[2] >= 128))
                          THEN bad
                          ELSE [ok |-> TRUE, val |-> BytesValue(c),
                                rest |-> SubSeq(b, 3 + l, Len(b))]

\* asn1.Unmarshal(sig, &esig): bytes after the two integers, inside or after
\* the SEQUENCE, are left over and not an error.
asn1Unmarshal(sig) ==
    LET bad == [err |-> "asn1Error", r |-> NilInt, s |-> NilInt]
    IN  IF Len(sig) < 2 \/ sig[1] # 48 \/ sig[2] >= 128 \/ Len(sig) < 2 + sig[2] THEN bad
        ELSE LET p1 == ParseInteger(SubSeq(sig, 3, 2 + sig[2]))
             IN  IF ~p1.ok THEN bad
                 ELSE LET p2 == ParseInteger(p1.rest)
                      IN  IF ~p2.ok THEN bad
                          ELSE [err |-> "nil", r |-> <<p1.val>>, s |-> <<p2.val>>]

(* ------------------------------------------------------------------------ *)
(* The native engine's arithmetic, reduced to a two-point group             *)
(* ------------------------------------------------------------------------ *)

\* The public point of private scalar d, and the points that lie on the curve.
PubOf(d) == <<d, 3 - d>>
OnCurve(x, y) == x + y = 3

HashVal(h) == IF h = "h1" THEN 0 ELSE 1

\* The s component the engine computes for scalar d, hash h and r component r.
SigS(d, h, r) == IF (d + HashVal(h) + r) % 2 = 0 THEN 1 ELSE 200

\* What a successful ECDSA_sign may write for scalar d and hash h: the DER
\* form of a signature under any nonce, or bytes that are no DER signature.
Malformed == <<48, 0>>
EngineSigs(d, h) == {asn1Marshal(<<r>>, <<SigS(d, h, r)>>).sig : r \in SigInts} \cup {Malformed}

\* Whether DER signature sig is one of hash h under public point pub.
EngineMatches(pub, h, sig) ==
    LET u == asn1Unmarshal(sig)
    IN  /\ pub # <<>>
        /\ u.err = "nil"
        /\ asn1Marshal(u.r, u.s).sig = sig
        /\ u.r[1] \in SigInts
        /\ u.s[1] = SigS(pub[1], h, u.r[1])

(* ------------------------------------------------------------------------ *)
(* State                                                                    *)
(* ------------------------------------------------------------------------ *)

VARIABLES
    keys,       \* native EC_KEY objects, by handle: the engine's heap
    wrappers,   \* PrivateKeyECDSA / PublicKeyECDSA objects, by identity
    g,          \* each goroutine's frame: operation, position, locals, result
    probe,      \* a call of curveNID on its own: the name and what it returned
    kept        \* a signature the application keeps from a SignECDSA, with
                \* the hash and the key it was made with

vars == <<keys, wrappers, g, probe, kept>>

\* A wrapper returned without runtime.SetFinalizer.
WrapperNoFinalizer(kind, key) ==
    [kind |-> kind, key |-> key, fins |-> 0, held |-> TRUE, finalized |-> FALSE]

\* type PrivateKeyECDSA struct { key } / type PublicKeyECDSA struct { key },
\* with the finalizers registered on it, whether the application still holds
\* a reference, and whether its finalizer has run.
Wrapper(kind, key) ==
    [kind |-> kind, key |-> key, fins |-> 1, held |-> TRUE, finalized |-> FALSE]

\* A native key object as EC_KEY_new_by_curve_name leaves it.
NewKeyObject(nid) ==
    [st |-> "live", frees |-> 0, nid |-> nid, pub |-> <<>>, priv |-> <<>>]

IdleFrame ==
    [op |-> "none", pc |-> "idle", native |-> "",
     curve |-> <<>>, X |-> NilInt, Y |-> NilInt, D |-> NilInt,
     w |-> 0, hash |-> "", r |-> NilInt, s |-> NilInt,
     nid |-> 0, key |-> 0, group |-> "nil",
     pt |-> "nil", bx |-> "nil", by |-> "nil", bd |-> "nil", ok |-> FALSE,
     size |-> 0, buf |-> <<>>, sigLen |-> 0, sig |-> <<>>, n |-> 0,
     defers |-> <<>>, sigErr |-> "nil",
     err |-> "nil", retKey |-> 0, retW |-> 0, retSig |-> <<>>,
     retR |-> NilInt, retS |-> NilInt, retOk |-> FALSE,
     retX |-> NilInt, retY |-> NilInt, retD |-> NilInt,
     trace |-> <<>>, uaf |-> FALSE, seen |-> <<>>]

NoProbe == [name |-> <<>>, done |-> FALSE, nid |-> 0, err |-> "nil"]

NoKept == <<>>

Init ==
    /\ keys = <<>>
    /\ wrappers = <<>>
    /\ g = [t \in Goroutines |-> IdleFrame]
    /\ probe = NoProbe
    /\ kept = NoKept

(* ------------------------------------------------------------------------ *)
(* Native calls                                                             *)
(* ------------------------------------------------------------------------ *)

\* The frame after one more native call, named in the frame's call trace.
Called(f, name) == [f EXCEPT !.trace = Append(@, name)]

\* The frame after a native call that receives key handle h: a call on a
\* released handle is recorded.
CalledOn(f, ks, h, name) ==
    [f EXCEPT !.trace = Append(@, name), !.uaf = @ \/ ks[h].st # "live"]

\* What the engine holds behind handle h: curve, public point, private scalar.
KeyMaterial(ks, h) == [nid |-> ks[h].nid, pub |-> ks[h].pub, priv |-> ks[h].priv]

\* C.go_openssl_EC_KEY_free(h) that never releases: the handle leaks.
KeyFreeNoop(ks, h) == ks

\* C.go_openssl_EC_KEY_free(h): the object and what it held are gone; a
\* second release of the same handle is counted.
KeyFree(ks, h) ==
    [ks EXCEPT ![h] = [st |-> "freed", frees |-> IF @.frees >= 2 THEN 2 ELSE @.frees + 1,
                       nid |-> 0, pub |-> <<>>, priv |-> <<>>]]

\* C.go_openssl_BN_free / C.go_openssl_EC_POINT_free on a scoped object:
\* "nil", "live", "freed", or "freed2" once released twice.
ScopedFree(o) ==
    IF o = "live" THEN "freed" ELSE IF o = "nil" THEN "nil" ELSE "freed2"

\* What an allocating native call can return: the object, or null.
AllocOutcomes == {"live", "nil"}

\* bigToBN(x): a native bignum of x's value the caller must release, or null
\* when the engine cannot allocate it; got is the engine's answer.
bigToBN(x, got) == IF x = NilInt THEN "nil" ELSE got

\* bnToBig(bn): the integer a native bignum of value v holds.
bnToBig(v) == <<v>>

(* ------------------------------------------------------------------------ *)
(* Reachability of a wrapper: the compiler's liveness of priv / pub         *)
(* ------------------------------------------------------------------------ *)

\* Statements of SignMarshalECDSA and VerifyECDSA, by source line.
Succ(n) ==
    CASE n = "sm143" -> {"sm144"}
      [] n = "sm144" -> {"sm146"}
      [] n = "sm146" -> {"sm147", "sm149"}
      [] n = "sm149" -> {"sm150"}
      [] n = "v157" -> {"v159", "v161"}
      [] n = "v161" -> {"v162"}
      [] n = "v162" -> {"v163"}
      [] OTHER -> {}

\* The statements with no runtime.KeepAlive among the reads.
ReadsNoKeepAlive == {"sm143", "sm146", "v161"}

\* The statements that read the wrapper: priv.key, pub.key, and
\* runtime.KeepAlive(priv) / runtime.KeepAlive(pub).
Reads == {"sm143", "sm146", "sm149", "v161", "v162"}

RECURSIVE After(_, _)
\* The statements control can reach from the set ns in at most k steps.
After(ns, k) ==
    IF k = 0 THEN ns
    ELSE After(ns \cup UNION {Succ(n) : n \in ns}, k - 1)

\* The wrapper is live across the statement at n: some statement after n
\* reads it.
LiveAfter(n) == After(Succ(n), 4) \cap Reads # {}

\* Wrapper w is reachable: the application holds it, or a goroutine is in a
\* call made by a statement after which w is still live.
Reachable(w) ==
    \/ wrappers[w].held
    \/ \E t \in DOMAIN g :
          /\ g[t].w = w
          /\ g[t].native # ""
          /\ LiveAfter(g[t].pc)

\* Goroutine t can start an operation: it has none running (the last one
\* returned, or panicked and the caller recovered).
Free(t) == g[t].pc \in {"idle", "done", "panic"}

\* Goroutine t is at statement pc of its operation.
At(t, pc) == g[t].pc = pc

(* ------------------------------------------------------------------------ *)
(* newECKey, NewPublicKeyECDSA, NewPrivateKeyECDSA                          *)
(* ------------------------------------------------------------------------ *)

\* return nil, err
Fail(f, err) == [f EXCEPT !.pc = "done", !.err = err]

\* k := &PublicKeyECDSA{key} / &PrivateKeyECDSA{key};
\* runtime.SetFinalizer(k, finalize); return k, nil
ReturnWrapper(t, f, kind) ==
    /\ wrappers' = Append(wrappers, Wrapper(kind, f.key))
    /\ g' = [g EXCEPT ![t] = [f EXCEPT !.pc = "done", !.retW = Len(wrappers) + 1]]

\* NewPublicKeyECDSA(curve, X, Y) or NewPrivateKeyECDSA(curve, X, Y, D) up to
\* newECKey's EC_KEY_new_by_curve_name.
NewKeyCall(t, op, curve, X, Y, D) ==
    /\ Free(t)
    /\ UNCHANGED <<probe, kept>>
    /\ LET c  == curveNID(curve)
           f0 == [IdleFrame EXCEPT !.op = op, !.curve = curve, !.X = X, !.Y = Y,
                                   !.D = D, !.nid = c.nid]
       IN  IF c.err # "nil"
           THEN /\ g' = [g EXCEPT ![t] = Fail(f0, c.err)]
                /\ UNCHANGED <<keys, wrappers>>
           ELSE \E got \in AllocOutcomes :
                   LET f1 == Called(f0, "EC_KEY_new_by_curve_name")
                   IN  IF got = "nil" \/ Len(keys) >= MaxKeys
                       THEN /\ g' = [g EXCEPT ![t] = Fail(f1, "OpenSSLError")]
                            /\ UNCHANGED <<keys, wrappers>>
                       ELSE /\ keys' = Append(keys, NewKeyObject(c.nid))
                            /\ g' = [g EXCEPT ![t] =
                                       [f1 EXCEPT !.pc = "ec79", !.key = Len(keys) + 1]]
                            /\ UNCHANGED wrappers

\* group := EC_KEY_get0_group(key); pt := EC_POINT_new(group); on nil the key
\* is released.
NewPoint(t) ==
    /\ At(t, "ec79")
    /\ UNCHANGED <<probe, kept>>
    /\ \E got \in AllocOutcomes :
          LET f1 == Called(CalledOn(g[t], keys, g[t].key, "EC_KEY_get0_group"),
                           "EC_POINT_new")
          IN  IF got = "nil"
              THEN /\ keys' = KeyFree(keys, f1.key)
                   /\ g' = [g EXCEPT ![t] =
                              Fail(Called([f1 EXCEPT !.group = "group"], "EC_KEY_free"),
                                   "OpenSSLError")]
              ELSE /\ g' = [g EXCEPT ![t] =
                              [f1 EXCEPT !.pc = "ec85", !.group = "group", !.pt = "live"]]
                   /\ UNCHANGED keys
    /\ UNCHANGED wrappers

\* bx := bigToBN(X); by := bigToBN(Y)
ConvertXY(t) ==
    /\ At(t, "ec85")
    /\ UNCHANGED <<probe, kept>>
    /\ \E gx \in AllocOutcomes, gy \in AllocOutcomes :
          g' = [g EXCEPT ![t] =
                  [Called(Called(g[t], "bigToBN"), "bigToBN")
                     EXCEPT !.pc = "ec87", !.bx = bigToBN(g[t].X, gx),
                            !.by = bigToBN(g[t].Y, gy)]]
    /\ UNCHANGED <<keys, wrappers>>

\* ok := bx != nil && by != nil &&
\*       EC_POINT_set_affine_coordinates_GFp(group, pt, bx, by, nil) != 0 &&
\*       EC_KEY_set_public_key(key, pt) != 0
\* The engine sets coordinates only of a point on the curve; either call can
\* fail.
SetPublic(t) ==
    /\ At(t, "ec87")
    /\ UNCHANGED <<probe, kept>>
    /\ LET f == g[t]
       IN  IF f.bx = "nil" \/ f.by = "nil"
           THEN /\ g' = [g EXCEPT ![t] = [f EXCEPT !.pc = "ec89", !.ok = FALSE]]
                /\ UNCHANGED keys
           ELSE \E set \in BOOLEAN, pub \in BOOLEAN :
                   LET f1 == Called(f, "EC_POINT_set_affine_coordinates_GFp")
                   IN  IF ~(set /\ OnCurve(f.X[1], f.Y[1]))
                       THEN /\ g' = [g EXCEPT ![t] = [f1 EXCEPT !.pc = "ec89", !.ok = FALSE]]
                            /\ UNCHANGED keys
                       ELSE LET f2 == CalledOn(f1, keys, f.key, "EC_KEY_set_public_key")
                            IN  /\ g' = [g EXCEPT ![t] = [f2 EXCEPT !.pc = "ec89", !.ok = pub]]
                                /\ keys' = IF pub
                                           THEN [keys EXCEPT ![f.key].pub = <<f.X[1], f.Y[1]>>]
                                           ELSE keys
    /\ UNCHANGED wrappers

\* if bx != nil { BN_free(bx) }; if by != nil { BN_free(by) }, releasing only
\* when both are set.
FreeXYBoth(f) ==
    IF f.bx # "nil" /\ f.by # "nil"
    THEN [Called(Called(f, "BN_free"), "BN_free")
            EXCEPT !.bx = ScopedFree(@), !.by = ScopedFree(@)]
    ELSE f

\* if bx != nil { BN_free(bx) }; if by != nil { BN_free(by) }
FreeXY(f) ==
    LET f1 == IF f.bx # "nil"
              THEN [Called(f, "BN_free") EXCEPT !.bx = ScopedFree(@)] ELSE f
    IN  IF f1.by # "nil"
        THEN [Called(f1, "BN_free") EXCEPT !.by = ScopedFree(@)] ELSE f1

\* EC_POINT_free(pt) called twice on the same point.
FreePointTwice(f) ==
    [Called(Called(f, "EC_POINT_free"), "EC_POINT_free")
       EXCEPT !.pt = ScopedFree(ScopedFree(@))]

\* EC_POINT_free(pt)
FreePoint(f) == [Called(f, "EC_POINT_free") EXCEPT !.pt = ScopedFree(@)]

\* The release of the bignums and the point, then newECKey's return: on !ok
\* the key is released and the error returned; otherwise NewPublicKeyECDSA
\* wraps the key and NewPrivateKeyECDSA goes on to the private scalar.
Cleanup(t) ==
    /\ At(t, "ec89")
    /\ UNCHANGED <<probe, kept>>
    /\ LET f == FreePoint(FreeXY(g[t]))
       IN  IF ~f.ok
           THEN /\ keys' = KeyFree(keys, f.key)
                /\ g' = [g EXCEPT ![t] = Fail(Called(f, "EC_KEY_free"), "OpenSSLError")]
                /\ UNCHANGED wrappers
           ELSE IF f.op = "NewPublicKeyECDSA"
                THEN /\ ReturnWrapper(t, [f EXCEPT !.retKey = f.key], "public")
                     /\ UNCHANGED keys
                ELSE /\ g' = [g EXCEPT ![t] = [f EXCEPT !.pc = "pk108", !.retKey = f.key]]
                     /\ UNCHANGED <<keys, wrappers>>

\* if bd != nil { BN_free(bd) }
FreeD(f) ==
    IF f.bd # "nil" THEN [Called(f, "BN_free") EXCEPT !.bd = ScopedFree(@)] ELSE f

\* NewPrivateKeyECDSA wrapping the key and setting its finalizer before the
\* private scalar is set: on !ok the key of a wrapper is released.
SetPrivateWrapFirst(t) ==
    /\ At(t, "pk108")
    /\ UNCHANGED <<probe, kept>>
    /\ \E gd \in AllocOutcomes, set \in BOOLEAN :
          LET f0 == [Called(g[t], "bigToBN") EXCEPT !.bd = bigToBN(g[t].D, gd)]
              f1 == IF f0.bd = "nil" THEN f0
                    ELSE CalledOn(f0, keys, f0.key, "EC_KEY_set_private_key")
              ok == f0.bd # "nil" /\ set
              f2 == FreeD([f1 EXCEPT !.ok = ok])
          IN  /\ wrappers' = Append(wrappers, Wrapper("private", f2.key))
              /\ IF ~ok
                 THEN /\ keys' = KeyFree(keys, f2.key)
                      /\ g' = [g EXCEPT ![t] =
                                 Fail(Called(f2, "EC_KEY_free"), "OpenSSLError")]
                 ELSE /\ keys' = [keys EXCEPT ![f2.key].priv = f2.D]
                      /\ g' = [g EXCEPT ![t] =
                                 [f2 EXCEPT !.pc = "done", !.retW = Len(wrappers) + 1]]

\* bd := bigToBN(D); ok := bd != nil && EC_KEY_set_private_key(key, bd) != 0;
\* the bignum is released; on !ok the key is released and the error returned,
\* otherwise the key is wrapped.
SetPrivate(t) ==
    /\ At(t, "pk108")
    /\ UNCHANGED <<probe, kept>>
    /\ \E gd \in AllocOutcomes, set \in BOOLEAN :
          LET f0 == [Called(g[t], "bigToBN") EXCEPT !.bd = bigToBN(g[t].D, gd)]
              f1 == IF f0.bd = "nil" THEN f0
                    ELSE CalledOn(f0, keys, f0.key, "EC_KEY_set_private_key")
              ok == f0.bd # "nil" /\ set
              f2 == FreeD([f1 EXCEPT !.ok = ok])
          IN  IF ~ok
              THEN /\ keys' = KeyFree(keys, f2.key)
                   /\ g' = [g EXCEPT ![t] = Fail(Called(f2, "EC_KEY_free"), "OpenSSLError")]
                   /\ UNCHANGED wrappers
              ELSE /\ keys' = [keys EXCEPT ![f2.key].priv = f2.D]
                   /\ ReturnWrapper(t, f2, "private")

(* ------------------------------------------------------------------------ *)
(* SignMarshalECDSA, SignECDSA                                              *)
(* ------------------------------------------------------------------------ *)

Zeros(n) == [i \in 1..n |-> 0]

\* SignMarshalECDSA(priv, hash), or SignECDSA(priv, hash) calling it, up to
\* the call of ECDSA_size(priv.key); the frame notes the key behind priv.key
\* as it is at the call.
SignCall(t, op, w, hash) ==
    /\ Free(t)
    /\ UNCHANGED <<probe, kept>>
    /\ w \in 1..Len(wrappers)
    /\ wrappers[w].held
    /\ wrappers[w].kind = "private"
    /\ g' = [g EXCEPT ![t] =
               [CalledOn([IdleFrame EXCEPT !.op = op, !.w = w, !.hash = hash],
                         keys, wrappers[w].key, "ECDSA_size")
                  EXCEPT !.pc = "sm143", !.native = "ECDSA_size", !.key = wrappers[w].key,
                         !.seen = KeyMaterial(keys, wrappers[w].key)]]
    /\ UNCHANGED <<keys, wrappers>>

\* ECDSA_size returns the maximum size, or 0 on error; sig := make([]byte,
\* size); the arguments of ECDSA_sign are evaluated (&sig[0] is out of range
\* for an empty sig) and ECDSA_sign is called with priv.key.
SizeReturn(t) ==
    /\ At(t, "sm143")
    /\ UNCHANGED <<probe, kept>>
    /\ g[t].native = "ECDSA_size"
    /\ \E size \in {0, EcdsaSize} :
          LET f == [g[t] EXCEPT !.size = size, !.buf = Zeros(size), !.native = ""]
          IN  IF size = 0
              THEN g' = [g EXCEPT ![t] = [f EXCEPT !.pc = "panic"]]
              ELSE g' = [g EXCEPT ![t] =
                           [CalledOn(f, keys, wrappers[f.w].key, "ECDSA_sign")
                              EXCEPT !.pc = "sm146", !.native = "ECDSA_sign",
                                     !.key = wrappers[f.w].key]]
    /\ UNCHANGED <<keys, wrappers>>

\* return sig, nil: the whole buffer.
SignMarshalReturnAll(f) ==
    [f EXCEPT !.pc = "done", !.sigErr = "nil", !.err = "nil", !.retSig = f.buf]

\* runtime.KeepAlive(priv); return sig[:sigLen], nil
SignMarshalReturn(f) ==
    [f EXCEPT !.pc = "done", !.sigErr = "nil", !.err = "nil",
              !.retSig = SubSeq(f.buf, 1, f.sigLen)]

\* return nil, newOpenSSLError("ECDSA_sign failed")
SignMarshalFail(f) ==
    [f EXCEPT !.pc = "done", !.sigErr = "OpenSSLError", !.err = "OpenSSLError",
              !.retSig = <<>>]

\* SignECDSA after a successful SignMarshalECDSA, returning r without s when
\* the signature does not decode.
SignECDSAReturnHalf(f) ==
    IF f.sigErr # "nil" THEN [f EXCEPT !.err = f.sigErr]
    ELSE LET u == asn1Unmarshal(f.retSig)
         IN  IF u.err # "nil" THEN [f EXCEPT !.err = u.err, !.retR = <<0>>]
             ELSE [f EXCEPT !.err = "nil", !.retR = u.r, !.retS = u.s]

\* SignECDSA returning esig.S, esig.R: the two integers in the wrong order.
SignECDSAReturnSwapped(f) ==
    IF f.sigErr # "nil" THEN [f EXCEPT !.err = f.sigErr]
    ELSE LET u == asn1Unmarshal(f.retSig)
         IN  IF u.err # "nil" THEN [f EXCEPT !.err = u.err]
             ELSE [f EXCEPT !.err = "nil", !.retR = u.s, !.retS = u.r]

\* SignECDSA after SignMarshalECDSA returned (sig, err): the error as it is,
\* or the error of asn1.Unmarshal(sig, &esig), or esig.R, esig.S.
SignECDSAReturn(f) ==
    IF f.sigErr # "nil" THEN [f EXCEPT !.err = f.sigErr]
    ELSE LET u == asn1Unmarshal(f.retSig)
         IN  IF u.err # "nil" THEN [f EXCEPT !.err = u.err]
             ELSE [f EXCEPT !.err = "nil", !.retR = u.r, !.retS = u.s]

\* What the engine may write when ECDSA_sign succeeds on handle h.
SignOutputs(ks, h, hash) ==
    IF ks[h].st = "live" /\ ks[h].priv # <<>>
    THEN EngineSigs(ks[h].priv[1], hash)
    ELSE {Malformed}

\* SignMarshalECDSA releasing priv.key when ECDSA_sign returns 0.
SignReturnFreeOnError(t) ==
    /\ At(t, "sm146")
    /\ UNCHANGED <<probe, kept>>
    /\ g[t].native = "ECDSA_sign"
    /\ \E ok \in BOOLEAN, out \in SignOutputs(keys, g[t].key, g[t].hash) :
          LET f0 == [g[t] EXCEPT !.native = ""]
              f1 == IF ok
                    THEN SignMarshalReturn(
                           [f0 EXCEPT !.buf = out \o Zeros(f0.size - Len(out)),
                                      !.sigLen = Len(out), !.sig = out])
                    ELSE SignMarshalFail(Called(f0, "EC_KEY_free"))
          IN  /\ g' = [g EXCEPT ![t] =
                         IF f1.op = "SignECDSA" THEN SignECDSAReturn(f1) ELSE f1]
              /\ keys' = IF ok THEN keys ELSE KeyFree(keys, f0.key)
    /\ UNCHANGED wrappers

\* ECDSA_sign returns: 0, or 1 with sigLen bytes written to sig (the frame
\* keeps what the engine wrote).
SignReturn(t) ==
    /\ At(t, "sm146")
    /\ UNCHANGED <<probe, kept>>
    /\ g[t].native = "ECDSA_sign"
    /\ \E ok \in BOOLEAN, out \in SignOutputs(keys, g[t].key, g[t].hash) :
          LET f0 == [g[t] EXCEPT !.native = ""]
              f1 == IF ok
                    THEN SignMarshalReturn(
                           [f0 EXCEPT !.buf = out \o Zeros(f0.size - Len(out)),
                                      !.sigLen = Len(out), !.sig = out])
                    ELSE SignMarshalFail(f0)
          IN  g' = [g EXCEPT ![t] =
                      IF f1.op = "SignECDSA" THEN SignECDSAReturn(f1) ELSE f1]
    /\ UNCHANGED <<keys, wrappers>>

(* ------------------------------------------------------------------------ *)
(* VerifyECDSA                                                              *)
(* ------------------------------------------------------------------------ *)

\* VerifyECDSA(pub, hash, r, s) up to its return of false on an encoding
\* error, or to the call of ECDSA_verify with pub.key; the frame notes the
\* key behind pub.key as it is at the call.
VerifyCall(t, w, hash, r, s) ==
    /\ Free(t)
    /\ UNCHANGED <<probe, kept>>
    /\ w \in 1..Len(wrappers)
    /\ wrappers[w].held
    /\ wrappers[w].kind = "public"
    /\ LET m  == asn1Marshal(r, s)
           f0 == [IdleFrame EXCEPT !.op = "VerifyECDSA", !.w = w, !.hash = hash,
                                   !.r = r, !.s = s, !.sig = m.sig, !.sigErr = m.err,
                                   !.seen = KeyMaterial(keys, wrappers[w].key)]
       IN  IF m.err # "nil"
           THEN g' = [g EXCEPT ![t] = [f0 EXCEPT !.pc = "done", !.retOk = FALSE]]
           ELSE g' = [g EXCEPT ![t] =
                        [CalledOn(f0, keys, wrappers[w].key, "ECDSA_verify")
                           EXCEPT !.pc = "v161", !.native = "ECDSA_verify",
                                  !.key = wrappers[w].key]]
    /\ UNCHANGED <<keys, wrappers>>

\* ok := ECDSA_verify(...) != 0
VerifyOkNonZero(n) == n # 0

\* ok := ECDSA_verify(...) == 0
VerifyOkInverted(n) == n = 0

\* ok := ECDSA_verify(...) > 0
VerifyOk(n) == n > 0

\* What ECDSA_verify may return on handle h: 1 for a match; 0 for none, or
\* -1 for a signature it cannot use.  The engine is deterministic: it does
\* not fail on a signature that matches.
VerifyOutcomes(ks, h, hash, sig) ==
    IF ks[h].st = "live" /\ EngineMatches(ks[h].pub, hash, sig)
    THEN {1} ELSE {0, -1}

\* ECDSA_verify returns; runtime.KeepAlive(pub); return ok
VerifyReturn(t) ==
    /\ At(t, "v161")
    /\ UNCHANGED <<probe, kept>>
    /\ g[t].native = "ECDSA_verify"
    /\ \E n \in VerifyOutcomes(keys, g[t].key, g[t].hash, g[t].sig) :
          g' = [g EXCEPT ![t] =
                  [g[t] EXCEPT !.pc = "done", !.native = "", !.n = n,
                               !.retOk = VerifyOk(n)]]
    /\ UNCHANGED <<keys, wrappers>>

(* ------------------------------------------------------------------------ *)
(* GenerateKeyECDSA                                                         *)
(* ------------------------------------------------------------------------ *)

\* Deferred calls that release the key only: the bignums' deferred releases
\* are left out.
RunDefersKeyOnly(f, ks) ==
    IF f.defers = <<>> THEN [f |-> f, ks |-> ks]
    ELSE [f |-> [Called(f, "EC_KEY_free") EXCEPT !.defers = <<>>],
          ks |-> KeyFree(ks, f.key)]

RECURSIVE RunDefers(_, _)
\* The deferred calls of the frame, last registered first:
\* defer EC_KEY_free(key), defer BN_free(bx), defer BN_free(by).
\* Yields the frame and the engine's keys after them.
RunDefers(f, ks) ==
    IF f.defers = <<>> THEN [f |-> f, ks |-> ks]
    ELSE LET d    == f.defers[Len(f.defers)]
             rest == SubSeq(f.defers, 1, Len(f.defers) - 1)
         IN  IF d = "key"
             THEN RunDefers([Called(f, "EC_KEY_free") EXCEPT !.defers = rest],
                            KeyFree(ks, f.key))
             ELSE IF d = "bx"
             THEN RunDefers([Called(f, "BN_free") EXCEPT !.defers = rest,
                                                         !.bx = ScopedFree(@)], ks)
             ELSE RunDefers([Called(f, "BN_free") EXCEPT !.defers = rest,
                                                         !.by = ScopedFree(@)], ks)

\* A return of GenerateKeyECDSA with frame f (its results set): the deferred
\* calls run and the goroutine is done.
GenReturn(t, f, ks) ==
    LET r == RunDefers(f, ks)
    IN  /\ keys' = r.ks
        /\ g' = [g EXCEPT ![t] = [r.f EXCEPT !.pc = "done"]]

\* GenerateKeyECDSA(curve) up to EC_KEY_new_by_curve_name and the deferred
\* release of the key.
GenCall(t, curve) ==
    /\ Free(t)
    /\ UNCHANGED <<probe, kept>>
    /\ LET c  == curveNID(curve)
           f0 == [IdleFrame EXCEPT !.op = "GenerateKeyECDSA", !.curve = curve,
                                   !.nid = c.nid]
       IN  IF c.err # "nil"
           THEN /\ g' = [g EXCEPT ![t] = Fail(f0, c.err)]
                /\ UNCHANGED keys
           ELSE \E got \in AllocOutcomes :
                   LET f1 == Called(f0, "EC_KEY_new_by_curve_name")
                   IN  IF got = "nil" \/ Len(keys) >= MaxKeys
                       THEN /\ g' = [g EXCEPT ![t] = Fail(f1, "OpenSSLError")]
                            /\ UNCHANGED keys
                       ELSE /\ keys' = Append(keys, NewKeyObject(c.nid))
                            /\ g' = [g EXCEPT ![t] =
                                       [f1 EXCEPT !.pc = "gk176", !.key = Len(keys) + 1,
                                                  !.defers = <<"key">>]]
    /\ UNCHANGED wrappers

\* EC_KEY_generate_key(key); group, pt, bd := the key's group, public point
\* and private scalar; a nil pt or bd is an error.  The group is not compared
\* with nil: a nil group goes on to the bignum allocations.
GenKey(t) ==
    /\ At(t, "gk176")
    /\ UNCHANGED <<probe, kept>>
    /\ \E ok \in BOOLEAN, d \in Scalars, gotPt \in {"borrowed", "nil"},
          gotBd \in {"borrowed", "nil"}, gotGroup \in {"group", "nil"} :
          LET f1 == CalledOn(g[t], keys, g[t].key, "EC_KEY_generate_key")
          IN  IF ~ok
              THEN GenReturn(t, [f1 EXCEPT !.err = "OpenSSLError"], keys)
              ELSE LET ks == [keys EXCEPT ![f1.key].priv = <<d>>, ![f1.key].pub = PubOf(d)]
                       f2 == CalledOn(CalledOn(CalledOn(f1, ks, f1.key, "EC_KEY_get0_group"),
                                               ks, f1.key, "EC_KEY_get0_public_key"),
                                      ks, f1.key, "EC_KEY_get0_private_key")
                       f3 == [f2 EXCEPT !.group = gotGroup, !.pt = gotPt, !.bd = gotBd]
                   IN  IF gotPt = "nil" \/ gotBd = "nil"
                       THEN GenReturn(t, [f3 EXCEPT !.err = "OpenSSLError"], ks)
                       ELSE /\ keys' = ks
                            /\ g' = [g EXCEPT ![t] = [f3 EXCEPT !.pc = "gk185"]]
    /\ UNCHANGED wrappers

\* bx := BN_new(); defer BN_free(bx); by := BN_new(); defer BN_free(by); a
\* nil bignum is an error.
GenCoords(t) ==
    /\ At(t, "gk185")
    /\ UNCHANGED <<probe, kept>>
    /\ \E gx \in AllocOutcomes, gy \in AllocOutcomes :
          LET f1 == [Called(g[t], "BN_new") EXCEPT !.bx = gx]
          IN  IF gx = "nil"
              THEN GenReturn(t, [f1 EXCEPT !.err = "OpenSSLError"], keys)
              ELSE LET f2 == [Called(f1, "BN_new")
                                EXCEPT !.by = gy, !.defers = Append(@, "bx")]
                   IN  IF gy = "nil"
                       THEN GenReturn(t, [f2 EXCEPT !.err = "OpenSSLError"], keys)
                       ELSE /\ g' = [g EXCEPT ![t] =
                                       [f2 EXCEPT !.pc = "gk195", !.defers = Append(@, "by")]]
                            /\ UNCHANGED keys
    /\ UNCHANGED wrappers

\* What EC_POINT_get_affine_coordinates_GFp does with the group it is handed:
\* with a group it returns 1 or 0; a nil group is dereferenced by the engine,
\* which faults in native code, unless the engine rejects it and returns 0.
ExtractOutcomes(group) ==
    IF group = "nil" THEN {"fault", "zero"} ELSE {"one", "zero"}

\* EC_POINT_get_affine_coordinates_GFp(group, pt, bx, by, nil), an error when
\* 0; return bnToBig(bx), bnToBig(by), bnToBig(bd), nil.  A fault in native
\* code ends the process: no deferred release runs and nothing is returned.
GenExtract(t) ==
    /\ At(t, "gk195")
    /\ UNCHANGED <<probe, kept>>
    /\ \E res \in ExtractOutcomes(g[t].group) :
          LET f1 == CalledOn(g[t], keys, g[t].key, "EC_POINT_get_affine_coordinates_GFp")
          IN  IF res = "fault"
              THEN /\ g' = [g EXCEPT ![t] = [f1 EXCEPT !.pc = "fault", !.native = ""]]
                   /\ UNCHANGED keys
              ELSE IF res = "zero"
              THEN GenReturn(t, [f1 EXCEPT !.err = "OpenSSLError"], keys)
              ELSE LET k  == keys[f1.key]
                       f2 == CalledOn(Called(Called(f1, "bnToBig"), "bnToBig"),
                                      keys, f1.key, "bnToBig")
                   IN  GenReturn(t, [f2 EXCEPT !.retX = bnToBig(k.pub[1]),
                                              !.retY = bnToBig(k.pub[2]),
                                              !.retD = bnToBig(k.priv[1])], keys)
    /\ UNCHANGED wrappers

(* ------------------------------------------------------------------------ *)
(* The application and the garbage collector                                *)
(* ------------------------------------------------------------------------ *)

\* The application drops its last reference to wrapper w.
Drop(w) ==
    /\ UNCHANGED <<probe, kept>>
    /\ w \in 1..Len(wrappers)
    /\ wrappers[w].held
    /\ wrappers' = [wrappers EXCEPT ![w].held = FALSE]
    /\ UNCHANGED <<keys, g>>

\* The collector finds w unreachable and runs its finalizer,
\* (*PrivateKeyECDSA).finalize or (*PublicKeyECDSA).finalize: EC_KEY_free(k.key).
Finalize(w) ==
    /\ UNCHANGED <<probe, kept>>
    /\ w \in 1..Len(wrappers)
    /\ wrappers[w].fins > 0
    /\ ~wrappers[w].finalized
    /\ ~Reachable(w)
    /\ wrappers' = [wrappers EXCEPT ![w].finalized = TRUE]
    /\ keys' = KeyFree(keys, wrappers[w].key)
    /\ UNCHANGED g

(* ------------------------------------------------------------------------ *)
(* Specification                                                            *)
(* ------------------------------------------------------------------------ *)

Next ==
    \/ \E t \in Goroutines, curve \in CurveNames, P \in Points :
          NewKeyCall(t, "NewPublicKeyECDSA", curve, <<P[1]>>, <<P[2]>>, NilInt)
    \/ \E t \in Goroutines, curve \in CurveNames, P \in Points, D \in Scalars :
          NewKeyCall(t, "NewPrivateKeyECDSA", curve, <<P[1]>>, <<P[2]>>, <<D>>)
    \/ \E t \in Goroutines : NewPoint(t)
    \/ \E t \in Goroutines : ConvertXY(t)
    \/ \E t \in Goroutines : SetPublic(t)
    \/ \E t \in Goroutines : Cleanup(t)
    \/ \E t \in Goroutines : SetPrivate(t)
    \/ \E t \in Goroutines, w \in 1..MaxKeys, h \in Hashes :
          SignCall(t, "SignMarshalECDSA", w, h)
    \/ \E t \in Goroutines, w \in 1..MaxKeys, h \in Hashes :
          SignCall(t, "SignECDSA", w, h)
    \/ \E t \in Goroutines : SizeReturn(t)
    \/ \E t \in Goroutines : SignReturn(t)
    \/ \E t \in Goroutines, w \in 1..MaxKeys, h \in Hashes, rs \in SigPairs :
          VerifyCall(t, w, h, rs[1], rs[2])
    \/ \E t \in Goroutines : VerifyReturn(t)
    \/ \E t \in Goroutines, curve \in CurveNames : GenCall(t, curve)
    \/ \E t \in Goroutines : GenKey(t)
    \/ \E t \in Goroutines : GenCoords(t)
    \/ \E t \in Goroutines : GenExtract(t)
    \/ \E w \in 1..MaxKeys : Drop(w)
    \/ \E w \in 1..MaxKeys : Finalize(w)

Spec == Init /\ [][Next]_vars

(* ------------------------------------------------------------------------ *)
(* curveNID on its own, over the names ProbeNames                           *)
(* ------------------------------------------------------------------------ *)

InitCurve ==
    /\ keys = <<>>
    /\ wrappers = <<>>
    /\ g = [t \in Goroutines |-> IdleFrame]
    /\ probe \in {[NoProbe EXCEPT !.name = n] : n \in ProbeNames}
    /\ kept = NoKept

\* nid, err := curveNID(name)
Resolve ==
    /\ ~probe.done
    /\ probe' = [probe EXCEPT !.done = TRUE, !.nid = curveNID(probe.name).nid,
                              !.err = curveNID(probe.name).err]
    /\ UNCHANGED <<keys, wrappers, g, kept>>

SpecCurve == InitCurve /\ [][Resolve]_vars

\* The collector is fair to every finalizer: a wrapper that stays unreachable
\* with a finalizer to run has it run.
FairSpec == Spec /\ \A w \in 1..MaxKeys : WF_vars(Finalize(w))

(* ------------------------------------------------------------------------ *)
(* An application that keeps a signature and verifies it later              *)
(* ------------------------------------------------------------------------ *)

\* The application keeps the r, s that SignECDSA returned to goroutine t,
\* with the hash that was signed.
Keep(t) ==
    /\ g[t].op = "SignECDSA"
    /\ g[t].pc = "done"
    /\ g[t].err = "nil"
    /\ kept' = [hash |-> g[t].hash, r |-> g[t].retR, s |-> g[t].retS,
                key |-> g[t].seen]
    /\ UNCHANGED <<keys, wrappers, g, probe>>

\* VerifyECDSA(pub, hash, r, s) with the hash and signature kept, as
\* VerifyCall starts it.
VerifyKept(t, w) ==
    /\ kept # NoKept
    /\ Free(t)
    /\ w \in 1..Len(wrappers)
    /\ wrappers[w].held
    /\ wrappers[w].kind = "public"
    /\ LET m  == asn1Marshal(kept.r, kept.s)
           f0 == [IdleFrame EXCEPT !.op = "VerifyECDSA", !.w = w, !.hash = kept.hash,
                                   !.r = kept.r, !.s = kept.s, !.sig = m.sig,
                                   !.sigErr = m.err,
                                   !.seen = KeyMaterial(keys, wrappers[w].key)]
       IN  IF m.err # "nil"
           THEN g' = [g EXCEPT ![t] = [f0 EXCEPT !.pc = "done", !.retOk = FALSE]]
           ELSE g' = [g EXCEPT ![t] =
                        [CalledOn(f0, keys, wrappers[w].key, "ECDSA_verify")
                           EXCEPT !.pc = "v161", !.native = "ECDSA_verify",
                                  !.key = wrappers[w].key]]
    /\ UNCHANGED <<keys, wrappers, probe, kept>>

\* The two constructors, SignECDSA and VerifyECDSA, the application keeping a
\* signature and giving it to VerifyECDSA between other calls (VerifyECDSA of
\* a signature of its own choice among them), and the collector.
NextSign ==
    \/ \E t \in Goroutines, curve \in CurveNames, P \in Points :
          NewKeyCall(t, "NewPublicKeyECDSA", curve, <<P[1]>>, <<P[2]>>, NilInt)
    \/ \E t \in Goroutines, curve \in CurveNames, P \in Points, D \in Scalars :
          NewKeyCall(t, "NewPrivateKeyECDSA", curve, <<P[1]>>, <<P[2]>>, <<D>>)
    \/ \E t \in Goroutines : NewPoint(t)
    \/ \E t \in Goroutines : ConvertXY(t)
    \/ \E t \in Goroutines : SetPublic(t)
    \/ \E t \in Goroutines : Cleanup(t)
    \/ \E t \in Goroutines : SetPrivate(t)
    \/ \E t \in Goroutines, w \in 1..MaxKeys, h \in Hashes :
          SignCall(t, "SignECDSA", w, h)
    \/ \E t \in Goroutines : SizeReturn(t)
    \/ \E t \in Goroutines : SignReturn(t)
    \/ \E t \in Goroutines : Keep(t)
    \/ \E t \in Goroutines, w \in 1..MaxKeys, h \in Hashes :
          VerifyCall(t, w, h, <<1>>, <<200>>)
    \/ \E t \in Goroutines, w \in 1..MaxKeys : VerifyKept(t, w)
    \/ \E t \in Goroutines : VerifyReturn(t)
    \/ \E w \in 1..MaxKeys : Drop(w)
    \/ \E w \in 1..MaxKeys : Finalize(w)

SpecSign == Init /\ [][NextSign]_vars

(* ------------------------------------------------------------------------ *)
(* Two goroutines signing and verifying with one pair of keys               *)
(* ------------------------------------------------------------------------ *)

Callers == {"g1", "g2"}

\* The engine's keys and the wrappers once NewPrivateKeyECDSA(P256, 1, 2, D)
\* and NewPublicKeyECDSA(P256, 1, 2) have returned their wrappers.
BuiltKeys(D) ==
    <<[NewKeyObject(NID_X9_62_prime256v1) EXCEPT !.pub = <<1, 2>>, !.priv = <<D>>],
      [NewKeyObject(NID_X9_62_prime256v1) EXCEPT !.pub = <<1, 2>>]>>

BuiltWrappers == <<Wrapper("private", 1), Wrapper("public", 2)>>

InitConc ==
    /\ keys \in {BuiltKeys(D) : D \in Scalars}
    /\ wrappers = BuiltWrappers
    /\ g = [t \in Callers |-> IdleFrame]
    /\ probe = NoProbe
    /\ kept = NoKept

\* Either goroutine signs or verifies with the two wrappers, the application
\* drops them and the collector finalizes them.
NextConc ==
    \/ \E t \in Callers, w \in 1..MaxKeys, h \in Hashes :
          SignCall(t, "SignMarshalECDSA", w, h)
    \/ \E t \in Callers, w \in 1..MaxKeys, h \in Hashes :
          SignCall(t, "SignECDSA", w, h)
    \/ \E t \in Callers : SizeReturn(t)
    \/ \E t \in Callers : SignReturn(t)
    \/ \E t \in Callers, w \in 1..MaxKeys, h \in Hashes, rs \in SigPairs :
          VerifyCall(t, w, h, rs[1], rs[2])
    \/ \E t \in Callers : VerifyReturn(t)
    \/ \E w \in 1..MaxKeys : Drop(w)
    \/ \E w \in 1..MaxKeys : Finalize(w)

SpecConc == InitConc /\ [][NextConc]_vars

(* ------------------------------------------------------------------------ *)
(* Properties                                                               *)
(* ------------------------------------------------------------------------ *)

Wrappers == 1..Len(wrappers)
Handles == 1..Len(keys)

\* Goroutine t is inside a native call that received a wrapper's handle.
InNativeCall(t) == g[t].native # ""

\* C1: while ECDSA_size, ECDSA_sign or ECDSA_verify runs on the handle of a
\* wrapper, whatever the call will return, the wrapper is reachable, its
\* finalizer has not run, and the handle the call received is the wrapper's
\* and is not released.
WrapperAliveDuringNativeCall ==
    \A t \in DOMAIN g :
        InNativeCall(t) =>
            /\ g[t].w \in Wrappers
            /\ Reachable(g[t].w)
            /\ ~wrappers[g[t].w].finalized
            /\ g[t].key = wrappers[g[t].w].key
            /\ keys[g[t].key].st = "live"
            /\ ~g[t].uaf

\* ECDSA_sign runs on the handle of a wrapper the application has dropped.
SignCallOnDroppedWrapper ==
    \E t \in DOMAIN g :
        /\ g[t].native = "ECDSA_sign"
        /\ ~wrappers[g[t].w].held

\* The key handle goroutine t's running operation has created and not yet
\* handed to a wrapper or released.
Owns(t, h) ==
    /\ g[t].key = h
    /\ g[t].op \in {"NewPublicKeyECDSA", "NewPrivateKeyECDSA", "GenerateKeyECDSA"}
    /\ g[t].pc \notin {"idle", "done", "panic"}

\* C2: no key handle is released twice and none is passed to a native call
\* after its release; a handle is not released while the operation that
\* created it runs or its wrapper's finalizer has not run; otherwise it is
\* released exactly once: by the failing constructor, by the finalizer, or
\* by GenerateKeyECDSA's deferred release.
KeyReleasedExactlyOnce ==
    /\ \A h \in Handles :
          LET owners == {t \in DOMAIN g : Owns(t, h)}
              ws     == {w \in Wrappers : wrappers[w].key = h}
          IN  /\ keys[h].frees <= 1
              /\ Cardinality(ws) <= 1
              /\ (owners # {} \/ \E w \in ws : ~wrappers[w].finalized)
                    => keys[h].st = "live" /\ keys[h].frees = 0
              /\ (owners = {} /\ \A w \in ws : wrappers[w].finalized)
                    => keys[h].st = "freed" /\ keys[h].frees = 1
    /\ \A t \in DOMAIN g : ~g[t].uaf

\* A finalizer has released the key of a wrapper, GenerateKeyECDSA has
\* released its key, and neither twice.
FinalizerAndDeferReleased ==
    /\ \E w \in Wrappers : wrappers[w].finalized /\ keys[wrappers[w].key].frees = 1
    /\ \E t \in DOMAIN g :
          /\ g[t].op = "GenerateKeyECDSA"
          /\ g[t].pc = "done"
          /\ g[t].key # 0
          /\ keys[g[t].key].frees = 1

\* Every wrapper holds one handle of its own and has one finalizer registered.
OneHandleOneFinalizer ==
    \A w \in Wrappers :
        /\ wrappers[w].key \in Handles
        /\ wrappers[w].fins = 1
        /\ \A v \in Wrappers : wrappers[v].key = wrappers[w].key => v = w
        /\ ~wrappers[w].finalized => keys[wrappers[w].key].st = "live"

Unreachable(w) == w \in Wrappers /\ ~Reachable(w)
Released(w) == w \in Wrappers /\ wrappers[w].finalized /\ keys[wrappers[w].key].st = "freed"

\* C3: every wrapper the constructors return holds exactly one handle and has
\* exactly one finalizer registered, and under a fair collector the handle of
\* a wrapper that has become unreachable is eventually released.
UnreachableWrapperEventuallyReleased ==
    /\ []OneHandleOneFinalizer
    /\ \A w \in 1..MaxKeys : Unreachable(w) ~> Released(w)

\* A wrapper returned by each constructor has been dropped and its handle
\* released by its finalizer.
BothKindsReleased ==
    /\ \E w \in Wrappers : wrappers[w].kind = "public" /\ Released(w)
    /\ \E w \in Wrappers : wrappers[w].kind = "private" /\ Released(w)

IsConstructor(t) == g[t].op \in {"NewPublicKeyECDSA", "NewPrivateKeyECDSA"}

\* C4: a constructor returns a wrapper exactly when it returns no error; when
\* it returns an error, the key object it allocated (if any) is released, and
\* so are the point and the bignums for X, Y and D it allocated; when it
\* returns a wrapper, the wrapper holds the key it built, still live.
ConstructorFailureLeaksNothing ==
    \A t \in DOMAIN g :
        (IsConstructor(t) /\ g[t].pc = "done") =>
            /\ (g[t].retW # 0) <=> (g[t].err = "nil")
            /\ g[t].err # "nil" =>
                  /\ g[t].key # 0 => keys[g[t].key].st = "freed"
                  /\ \A h \in Handles : keys[h].st = "live" =>
                        \/ \E w \in Wrappers : wrappers[w].key = h
                        \/ \E u \in DOMAIN g : Owns(u, h)
            /\ g[t].err = "nil" =>
                  /\ g[t].retW \in Wrappers
                  /\ wrappers[g[t].retW].key = g[t].key
            /\ g[t].pt \in {"nil", "freed"}
            /\ g[t].bx \in {"nil", "freed"}
            /\ g[t].by \in {"nil", "freed"}
            /\ g[t].bd \in {"nil", "freed"}

\* A constructor has failed after converting X but not Y: the bignum for X is
\* released, the point and the key too.
FailedWithOneBignum ==
    \E t \in DOMAIN g :
        /\ IsConstructor(t)
        /\ g[t].pc = "done"
        /\ g[t].err = "OpenSSLError"
        /\ g[t].bx = "freed"
        /\ g[t].by = "nil"
        /\ g[t].pt = "freed"
        /\ keys[g[t].key].st = "freed"

Supported == {P224, P256, P384, P521}

\* C5: curveNID returns no error exactly for "P-224", "P-256", "P-384" and
\* "P-521", with the engine's identifier of that curve, the four identifiers
\* being distinct; for every other string it returns errUnknownCurve.
CurveNIDTable ==
    /\ Cardinality({NID_secp224r1, NID_X9_62_prime256v1, NID_secp384r1, NID_secp521r1}) = 4
    /\ probe.done =>
          /\ probe.name = P224 => probe.nid = NID_secp224r1
          /\ probe.name = P256 => probe.nid = NID_X9_62_prime256v1
          /\ probe.name = P384 => probe.nid = NID_secp384r1
          /\ probe.name = P521 => probe.nid = NID_secp521r1
          /\ probe.name \in Supported <=> probe.err = "nil"
          /\ probe.name \notin Supported => probe.err = "errUnknownCurve"

\* curveNID has resolved "P-384".
ResolvedP384 == probe.done /\ probe.name = P384 /\ probe.err = "nil"

\* C6: NewPublicKeyECDSA, NewPrivateKeyECDSA and GenerateKeyECDSA called with
\* a name that is none of the four return errUnknownCurve at once: no native
\* call made, no key object, point or bignum allocated, no wrapper.
UnknownCurveBeforeAllocation ==
    \A t \in DOMAIN g :
        (/\ g[t].op \in {"NewPublicKeyECDSA", "NewPrivateKeyECDSA", "GenerateKeyECDSA"}
         /\ g[t].curve \notin Supported) =>
            /\ g[t].pc = "done"
            /\ g[t].err = "errUnknownCurve"
            /\ g[t].trace = <<>>
            /\ g[t].key = 0
            /\ g[t].pt = "nil" /\ g[t].bx = "nil" /\ g[t].by = "nil" /\ g[t].bd = "nil"
            /\ g[t].retW = 0
            /\ g[t].retX = NilInt /\ g[t].retY = NilInt /\ g[t].retD = NilInt

\* GenerateKeyECDSA has returned for an unknown name while a key built
\* earlier is live.
UnknownCurveRejected ==
    \E t \in DOMAIN g :
        /\ g[t].op = "GenerateKeyECDSA"
        /\ g[t].curve = P192
        /\ g[t].pc = "done"
        /\ \E h \in Handles : keys[h].st = "live"

\* C7: VerifyECDSA returns a boolean, never an error or a panic: false
\* without calling ECDSA_verify when asn1.Marshal fails; otherwise true
\* exactly when ECDSA_verify returned 1, false when it returned 0 or -1.
VerifyTrueOnlyOnPositive ==
    \A t \in DOMAIN g :
        g[t].op = "VerifyECDSA" =>
            /\ g[t].pc # "panic"
            /\ g[t].err = "nil"
            /\ g[t].pc = "done" =>
                  IF g[t].r = NilInt \/ g[t].s = NilInt
                  THEN ~g[t].retOk /\ g[t].trace = <<>>
                  ELSE /\ g[t].trace = <<"ECDSA_verify">>
                       /\ g[t].n \in {-1, 0, 1}
                       /\ g[t].retOk <=> g[t].n = 1

\* ECDSA_verify has returned -1 and VerifyECDSA false.
VerifyErrorIsFalse ==
    \E t \in DOMAIN g :
        /\ g[t].op = "VerifyECDSA"
        /\ g[t].pc = "done"
        /\ g[t].trace = <<"ECDSA_verify">>
        /\ g[t].n = -1
        /\ ~g[t].retOk

\* C8: SignMarshalECDSA never panics, whatever ECDSA_size and ECDSA_sign
\* return: it returns a signature and a nil error, or no signature and the
\* engine error.
SignFailuresAreEngineErrors ==
    \A t \in DOMAIN g :
        g[t].op = "SignMarshalECDSA" =>
            /\ g[t].pc # "panic"
            /\ g[t].pc = "done" =>
                  \/ g[t].err = "nil" /\ g[t].retSig # <<>>
                  \/ g[t].err = "OpenSSLError" /\ g[t].retSig = <<>>

IsSign(t) == g[t].op \in {"SignMarshalECDSA", "SignECDSA"}

\* C9: a successful SignMarshalECDSA returns the first sigLen bytes of a
\* buffer of the size ECDSA_size returned, which are the bytes ECDSA_sign
\* wrote, and no more than that size.
SignatureTruncatedToWritten ==
    \A t \in DOMAIN g :
        (IsSign(t) /\ g[t].pc = "done" /\ g[t].sigErr = "nil") =>
            /\ g[t].size = EcdsaSize
            /\ Len(g[t].buf) = g[t].size
            /\ g[t].sigLen <= g[t].size
            /\ Len(g[t].retSig) = g[t].sigLen
            /\ \A i \in 1..g[t].sigLen : g[t].retSig[i] = g[t].buf[i]
            /\ g[t].retSig = g[t].sig

\* SignMarshalECDSA has returned a signature shorter than its buffer.
ShorterThanBuffer ==
    \E t \in DOMAIN g :
        /\ g[t].op = "SignMarshalECDSA"
        /\ g[t].pc = "done"
        /\ g[t].sigErr = "nil"
        /\ g[t].sigLen > 0
        /\ g[t].sigLen < g[t].size

\* C10: SignECDSA returns R and S with a nil error only when SignMarshalECDSA
\* succeeded and its signature decoded; when SignMarshalECDSA failed it
\* returns nil, nil and that engine error; when the signature does not decode
\* it returns nil, nil and the codec error, which is not the engine error; R
\* and S are both nil or both set.
SignECDSAAllOrNothing ==
    \A t \in DOMAIN g :
        (g[t].op = "SignECDSA" /\ g[t].pc = "done") =>
            LET decodes == asn1Unmarshal(g[t].retSig).err = "nil"
            IN  /\ (g[t].retR = NilInt) <=> (g[t].retS = NilInt)
                /\ (g[t].retR # NilInt) <=> (g[t].err = "nil")
                /\ g[t].err = "nil" => g[t].sigErr = "nil" /\ decodes
                /\ g[t].sigErr # "nil" => g[t].err = g[t].sigErr /\ g[t].err = "OpenSSLError"
                /\ (g[t].sigErr = "nil" /\ ~decodes) => g[t].err = "asn1Error"
                /\ (g[t].sigErr = "nil" /\ decodes) =>
                      asn1Marshal(g[t].retR, g[t].retS).sig = g[t].retSig

\* SignECDSA has returned the codec error for a signature that does not
\* decode.
DecodeFailureSurfaced ==
    \E t \in DOMAIN g :
        /\ g[t].op = "SignECDSA"
        /\ g[t].pc = "done"
        /\ g[t].sigErr = "nil"
        /\ g[t].err = "asn1Error"
        /\ g[t].retR = NilInt

\* The number of calls of the native function name in a call trace.
RECURSIVE CallsOf(_, _)
CallsOf(trace, name) ==
    IF trace = <<>> THEN 0
    ELSE (IF trace[Len(trace)] = name THEN 1 ELSE 0)
         + CallsOf(SubSeq(trace, 1, Len(trace) - 1), name)

IsGenerate(t) == g[t].op = "GenerateKeyECDSA"

\* GenerateKeyECDSA has read the key's group, public point and private scalar.
GettersCalled(t) == CallsOf(g[t].trace, "EC_KEY_get0_group") = 1

\* C11: GenerateKeyECDSA returns X, Y and D all set with a nil error, or nil,
\* nil, nil with the engine error, and nothing else; a nil group, public point
\* or private scalar read from the generated key makes it return the engine
\* error at once, with no further allocation or extraction.
GenerateAllOrNothing ==
    \A t \in DOMAIN g :
        IsGenerate(t) =>
            /\ g[t].pc # "fault"
            /\ g[t].pc = "done" =>
                  \/ /\ g[t].err = "nil"
                     /\ g[t].retX # NilInt /\ g[t].retY # NilInt /\ g[t].retD # NilInt
                  \/ /\ g[t].err \in {"OpenSSLError", "errUnknownCurve"}
                     /\ g[t].retX = NilInt /\ g[t].retY = NilInt /\ g[t].retD = NilInt
            /\ (GettersCalled(t) /\ "nil" \in {g[t].group, g[t].pt, g[t].bd}) =>
                  /\ g[t].pc = "done"
                  /\ g[t].err = "OpenSSLError"
                  /\ CallsOf(g[t].trace, "BN_new") = 0
                  /\ CallsOf(g[t].trace, "EC_POINT_get_affine_coordinates_GFp") = 0

\* C12: the R and S that SignECDSA decodes from a signature SignMarshalECDSA
\* produced, encoded again the way VerifyECDSA encodes them, are the bytes of
\* that signature: decoding and encoding are inverses on produced signatures.
SignatureRoundTrip ==
    \A t \in DOMAIN g :
        (g[t].op = "SignECDSA" /\ g[t].pc = "done" /\ g[t].err = "nil") =>
            LET m == asn1Marshal(g[t].retR, g[t].retS)
            IN  /\ m.err = "nil"
                /\ m.sig = g[t].retSig
                /\ m.sig = g[t].sig
                /\ asn1Unmarshal(m.sig).r = g[t].retR
                /\ asn1Unmarshal(m.sig).s = g[t].retS

\* SignECDSA has decoded a signature whose two integers differ and one of
\* which is encoded with a leading zero byte.
DecodedUnequalIntegers ==
    \E t \in DOMAIN g :
        /\ g[t].op = "SignECDSA"
        /\ g[t].pc = "done"
        /\ g[t].err = "nil"
        /\ g[t].retR # g[t].retS
        /\ Len(g[t].retSig) = 9

\* Key material k is a valid (curve, X, Y, D): a supported curve, and X, Y
\* the public point of D on it.
ValidKey(k) ==
    /\ k.nid = NID_X9_62_prime256v1
    /\ k.priv # <<>>
    /\ k.pub = PubOf(k.priv[1])
    /\ OnCurve(k.pub[1], k.pub[2])

\* Goroutine t's VerifyECDSA is given the kept hash and signature, on a public
\* key of the curve and point of the private key that signed.
VerifiesKept(t) ==
    /\ g[t].op = "VerifyECDSA"
    /\ kept # NoKept
    /\ g[t].hash = kept.hash /\ g[t].r = kept.r /\ g[t].s = kept.s
    /\ g[t].seen.nid = kept.key.nid
    /\ g[t].seen.pub = kept.key.pub
    /\ g[t].seen.priv = <<>>

\* C13: an (R, S) that SignECDSA returned for a hash under a private key of a
\* valid (curve, X, Y, D), given with that hash to VerifyECDSA on a public
\* key built from (curve, X, Y), is verified: ECDSA_verify returns 1 and
\* VerifyECDSA true, whatever calls ran between the two.
SignThenVerify ==
    \A t \in DOMAIN g :
        (VerifiesKept(t) /\ ValidKey(kept.key) /\ g[t].pc = "done") =>
            /\ g[t].n = 1
            /\ g[t].retOk

\* A kept signature of a valid key has been verified on a public key of its
\* own, after the private key that made it was released by its finalizer.
VerifiedAfterSignerReleased ==
    \E t \in DOMAIN g :
        /\ VerifiesKept(t)
        /\ ValidKey(kept.key)
        /\ g[t].pc = "done"
        /\ g[t].retOk
        /\ \E w \in Wrappers : wrappers[w].kind = "private" /\ wrappers[w].finalized

\* 1 for a scoped object that was allocated and released once, 0 for one
\* never allocated.
Freed(o) == IF o = "freed" THEN 1 ELSE 0

\* C14: in newECKey the point and the bignums of X and Y are never released
\* twice and are not released before the public key is set or has failed to
\* be; when newECKey has returned, with a key or with an error, each of them
\* that was allocated has been released by exactly one call and none that
\* was not allocated has been released.
NewECKeyReleasesScoped ==
    \A t \in DOMAIN g :
        IsConstructor(t) =>
            /\ {g[t].pt, g[t].bx, g[t].by} \subseteq {"nil", "live", "freed"}
            /\ g[t].pc \in {"ec79", "ec85", "ec87", "ec89"} =>
                  /\ {g[t].pt, g[t].bx, g[t].by} \subseteq {"nil", "live"}
                  /\ CallsOf(g[t].trace, "EC_POINT_free") = 0
                  /\ CallsOf(g[t].trace, "BN_free") = 0
            /\ g[t].pc \in {"pk108", "done"} =>
                  /\ {g[t].pt, g[t].bx, g[t].by} \subseteq {"nil", "freed"}
                  /\ CallsOf(g[t].trace, "EC_POINT_free") = Freed(g[t].pt)
                  /\ CallsOf(g[t].trace, "BN_free")
                        = Freed(g[t].bx) + Freed(g[t].by) + Freed(g[t].bd)
                  /\ CallsOf(g[t].trace, "EC_POINT_new") = 1 =>
                        (g[t].pt = "freed" <=> CallsOf(g[t].trace, "bigToBN") >= 2)

\* newECKey has returned an error after both bignums were allocated and the
\* public key could not be set: point and bignums are released.
ReleasedAfterSetPublicFailed ==
    \E t \in DOMAIN g :
        /\ IsConstructor(t)
        /\ g[t].pc = "done"
        /\ g[t].err = "OpenSSLError"
        /\ CallsOf(g[t].trace, "EC_KEY_set_public_key") = 1
        /\ g[t].pt = "freed" /\ g[t].bx = "freed" /\ g[t].by = "freed"

\* The position of the first call of name in a call trace, 0 when there is
\* none.
FirstCall(trace, name) ==
    IF \E i \in 1..Len(trace) : trace[i] = name
    THEN CHOOSE i \in 1..Len(trace) :
            trace[i] = name /\ \A j \in 1..(i - 1) : trace[j] # name
    ELSE 0

\* The calls of GenerateKeyECDSA that read the key or what is borrowed from
\* it: its group, its public point, its private scalar.
KeyReads ==
    {"EC_KEY_generate_key", "EC_KEY_get0_group", "EC_KEY_get0_public_key",
     "EC_KEY_get0_private_key", "EC_POINT_get_affine_coordinates_GFp", "bnToBig"}

\* C15: when GenerateKeyECDSA has returned, with a triple or with an error,
\* the key object it allocated has been released by exactly one call, each
\* coordinate bignum it allocated has been released by exactly one call and
\* none twice; the group, public point and private scalar borrowed from the
\* key are never released on their own, and no call reads the key or one of
\* them after the key's release.
GenerateReleasesAll ==
    \A t \in DOMAIN g :
        IsGenerate(t) =>
            /\ {g[t].bx, g[t].by} \subseteq {"nil", "live", "freed"}
            /\ g[t].pt \in {"nil", "borrowed"}
            /\ g[t].bd \in {"nil", "borrowed"}
            /\ g[t].group \in {"nil", "group"}
            /\ CallsOf(g[t].trace, "EC_POINT_free") = 0
            /\ ~g[t].uaf
            /\ LET rel == FirstCall(g[t].trace, "EC_KEY_free")
               IN  rel # 0 =>
                     \A i \in (rel + 1)..Len(g[t].trace) : g[t].trace[i] \notin KeyReads
            /\ g[t].pc = "done" =>
                  /\ g[t].defers = <<>>
                  /\ {g[t].bx, g[t].by} \subseteq {"nil", "freed"}
                  /\ CallsOf(g[t].trace, "BN_free") = Freed(g[t].bx) + Freed(g[t].by)
                  /\ g[t].key # 0 =>
                        /\ keys[g[t].key].st = "freed"
                        /\ keys[g[t].key].frees = 1
                        /\ CallsOf(g[t].trace, "EC_KEY_free") = 1
                  /\ g[t].key = 0 => CallsOf(g[t].trace, "EC_KEY_free") = 0

\* GenerateKeyECDSA has returned a triple: the key and both bignums are
\* released, after the private scalar was read.
GeneratedAndReleased ==
    \E t \in DOMAIN g :
        /\ IsGenerate(t)
        /\ g[t].pc = "done"
        /\ g[t].err = "nil"
        /\ g[t].retD # NilInt
        /\ g[t].bx = "freed" /\ g[t].by = "freed"
        /\ keys[g[t].key].st = "freed"

IsNewPrivate(t) == g[t].op = "NewPrivateKeyECDSA"

\* NewPrivateKeyECDSA in goroutine t has got its key from newECKey and has
\* returned an error: the conversion of D or EC_KEY_set_private_key failed.
PrivatePartFailed(t) ==
    /\ IsNewPrivate(t)
    /\ g[t].pc = "done"
    /\ g[t].retKey # 0
    /\ g[t].err # "nil"

\* C16: NewPrivateKeyECDSA converts D and sets the private scalar only after
\* newECKey has set the public key and returned the key; a private wrapper
\* exists, with its finalizer, only for a key whose private scalar has been
\* set, and its key is released by that finalizer alone; when the conversion
\* of D or the setting fails, the bignum of D is released if it was
\* allocated, the key is released once, and no wrapper and no finalizer
\* exist for that key.
PrivateSetBeforeWrapped ==
    /\ \A t \in DOMAIN g :
          IsNewPrivate(t) =>
              LET tr     == g[t].trace
                  setPub == FirstCall(tr, "EC_KEY_set_public_key")
              IN  /\ g[t].pc = "pk108" =>
                        /\ setPub # 0
                        /\ g[t].retKey = g[t].key
                        /\ keys[g[t].key].st = "live"
                        /\ keys[g[t].key].pub = <<g[t].X[1], g[t].Y[1]>>
                        /\ keys[g[t].key].priv = <<>>
                        /\ \A w \in Wrappers : wrappers[w].key # g[t].key
                  /\ CallsOf(tr, "EC_KEY_set_private_key") <= 1
                  /\ FirstCall(tr, "EC_KEY_set_private_key") # 0 =>
                        /\ setPub # 0
                        /\ setPub < FirstCall(tr, "EC_KEY_set_private_key")
                        /\ g[t].retKey # 0
                        /\ g[t].bd # "nil"
                  /\ g[t].retW # 0 =>
                        /\ g[t].ok
                        /\ CallsOf(tr, "EC_KEY_set_private_key") = 1
                        /\ wrappers[g[t].retW].kind = "private"
                        /\ wrappers[g[t].retW].key = g[t].key
                        /\ wrappers[g[t].retW].fins = 1
                  /\ PrivatePartFailed(t) =>
                        /\ g[t].retW = 0
                        /\ g[t].bd \in {"nil", "freed"}
                        /\ CallsOf(tr, "BN_free")
                              = Freed(g[t].bx) + Freed(g[t].by) + Freed(g[t].bd)
                        /\ keys[g[t].key].st = "freed"
                        /\ keys[g[t].key].frees = 1
                        /\ \A w \in Wrappers : wrappers[w].key # g[t].key
    /\ \A w \in Wrappers :
          LET k == keys[wrappers[w].key]
          IN  IF wrappers[w].finalized
              THEN k.st = "freed" /\ k.frees = 1
              ELSE /\ k.st = "live"
                   /\ k.pub # <<>>
                   /\ wrappers[w].kind = "private" => k.priv # <<>>

\* NewPrivateKeyECDSA has returned an error because EC_KEY_set_private_key
\* failed: the bignum of D and the key are released and there is no wrapper.
SetPrivateFailed ==
    \E t \in DOMAIN g :
        /\ PrivatePartFailed(t)
        /\ CallsOf(g[t].trace, "EC_KEY_set_private_key") = 1
        /\ g[t].bd = "freed"
        /\ keys[g[t].key].st = "freed"

\* Goroutine t's frame changes in this step and is, after it, a frame of
\* SignMarshalECDSA, SignECDSA or VerifyECDSA.
SignOrVerifyStep(t) ==
    /\ g'[t] # g[t]
    /\ g'[t].op \in {"SignMarshalECDSA", "SignECDSA", "VerifyECDSA"}

\* C17: no step gives a wrapper another handle, kind or finalizer; no step of
\* SignMarshalECDSA, SignECDSA or VerifyECDSA changes a wrapper or a key; the
\* key of a wrapper changes only when the wrapper's finalizer releases it;
\* and so every call in progress, however many run on the same wrapper, has
\* the wrapper's handle and finds behind it the key it found when it began.
WrapperAndKeyUnchanged ==
    [][ /\ Len(wrappers') >= Len(wrappers)
        /\ \A w \in Wrappers :
              /\ wrappers'[w].key = wrappers[w].key
              /\ wrappers'[w].kind = wrappers[w].kind
              /\ wrappers'[w].fins = wrappers[w].fins
              /\ keys'[wrappers[w].key] # keys[wrappers[w].key] =>
                    /\ ~wrappers[w].finalized /\ wrappers'[w].finalized
                    /\ \A t \in DOMAIN g :
                          g[t].w = w => ~InNativeCall(t) /\ g'[t] = g[t]
        /\ (\E t \in DOMAIN g : SignOrVerifyStep(t)) =>
              keys' = keys /\ wrappers' = wrappers
        /\ \A t \in DOMAIN g :
              InNativeCall(t)' =>
                  /\ g'[t].key = wrappers'[g'[t].w].key
                  /\ KeyMaterial(keys', g'[t].key) = g'[t].seen
                  /\ \A u \in DOMAIN g :
                        (InNativeCall(u)' /\ g'[u].w = g'[t].w) =>
                            g'[u].key = g'[t].key /\ g'[u].seen = g'[t].seen
      ]_vars

\* Two goroutines are in ECDSA_sign on the same private key at once, for
\* different hashes.
TwoSignsOnOneWrapper ==
    /\ Cardinality(DOMAIN g) >= 2
    /\ \A t \in DOMAIN g : g[t].native = "ECDSA_sign" /\ g[t].w = 1
    /\ \E t, u \in DOMAIN g : g[t].hash # g[u].hash

====
